---------------------------- MODULE Spec2Model ----------------------------
(***************************************************************************)
(* Model of convert_to_bids.py: the conversion of the CENIR ICEBERG spine  *)
(* MRI tree to a BIDS tree.                                                *)
(*                                                                         *)
(* Strings are sequences of one-character strings, so that the substring   *)
(* tests, splits and replacements of the script are computed as Python     *)
(* computes them.  The file system is a function from paths to contents.   *)
(***************************************************************************)
EXTENDS Integers, Sequences, FiniteSets, TLC

VARIABLES
    fs,                 \* the file system: path -> content
    pc,                 \* position of convert_mri_to_bids
    run,                \* which invocation of the script is executing (1 or 2)
    listing,            \* entries of os.listdir(path_in) not yet iterated
    patient_dir,        \* loop variable of line 63
    bids_patient_id,    \* line 66
    dwi_chunk_counter,  \* line 76
    walk,               \* .nii files of os.walk(patient_path) not yet iterated
    log,                \* file operations performed by the current invocation
    failure,            \* the exception that ended the invocation, or NoFailure
    out1,               \* output tree left by the previous invocation
    order1,             \* order in which the previous invocation was served entries
    replay,             \* the file system lists in that same order again
    arg,                \* argument of a direct call of a pure function
    ret                 \* its result

vars == <<fs, pc, run, listing, patient_dir, bids_patient_id, dwi_chunk_counter,
          walk, log, failure, out1, order1, replay, arg, ret>>

-----------------------------------------------------------------------------
(* Bounds of the model *)

\* number of entries under the input root
MaxDirs == 2
\* number of .nii files in one raw acquisition directory
MaxFiles == 2
\* the same two bounds for the trees the script is run on twice
MaxDirsTwice == 1
MaxFilesTwice == 2
\* largest value of dwi_chunk_counter in a direct call of the classifier
MaxChunk == 11

-----------------------------------------------------------------------------
(* Python strings *)

Min(S) == CHOOSE x \in S : \A y \in S : x <= y
Max(S) == CHOOSE x \in S : \A y \in S : x >= y

\* the indices at which pat occurs in s
Occurrences(s, pat) ==
    {i \in 1..(Len(s) - Len(pat) + 1) : SubSeq(s, i, i + Len(pat) - 1) = pat}

\* pat in s
Contains(s, pat) == Occurrences(s, pat) # {}

\* s.endswith(suffix)
EndsWith(s, suffix) ==
    /\ Len(s) >= Len(suffix)
    /\ SubSeq(s, Len(s) - Len(suffix) + 1, Len(s)) = suffix

\* s.split(sep): pieces between the occurrences of sep, scanning from the left
RECURSIVE Split(_, _)
Split(s, sep) ==
    IF Occurrences(s, sep) = {} THEN <<s>>
    ELSE LET i == Min(Occurrences(s, sep))
         IN  <<SubSeq(s, 1, i - 1)>> \o Split(SubSeq(s, i + Len(sep), Len(s)), sep)

\* s.rsplit(sep): the same pieces, scanning from the right
RECURSIVE RSplit(_, _)
RSplit(s, sep) ==
    IF Occurrences(s, sep) = {} THEN <<s>>
    ELSE LET i == Max(Occurrences(s, sep))
         IN  RSplit(SubSeq(s, 1, i - 1), sep) \o <<SubSeq(s, i + Len(sep), Len(s))>>

\* s.replace(old, new): every non-overlapping occurrence, from the left
RECURSIVE Replace(_, _, _)
Replace(s, old, new) ==
    IF Occurrences(s, old) = {} THEN s
    ELSE LET i == Min(Occurrences(s, old))
         IN  SubSeq(s, 1, i - 1) \o new
                 \o Replace(SubSeq(s, i + Len(old), Len(s)), old, new)

Digits == <<"0", "1", "2", "3", "4", "5", "6", "7", "8", "9">>

\* f"{n}" of a non-negative integer
RECURSIVE Str(_)
Str(n) == IF n < 10 THEN <<Digits[n + 1]>>
          ELSE Str(n \div 10) \o <<Digits[(n % 10) + 1]>>

\* Python's None, distinct from every string
None == <<"None">>

\* truth value of a string or None (lines 69 and 83)
Truthy(x) == x # None /\ x # <<>>

\* outcome of a call: a value, or an exception raised
Return(v) == [raised |-> FALSE, value |-> v]
Raise(e) == [raised |-> TRUE, value |-> e]

-----------------------------------------------------------------------------
(* String literals of the script *)

NII == <<".", "n", "i", "i">>
NII_GZ == <<".", "n", "i", "i", ".", "g", "z">>
JSON == <<".", "j", "s", "o", "n">>
BVAL == <<".", "b", "v", "a", "l">>
BVEC == <<".", "b", "v", "e", "c">>
DWI == <<"D", "W", "I">>
DEV2 == <<"D", "E", "V", "2">>
DEV2_ == <<"D", "E", "V", "2", "_">>
Sujet == <<"S", "u", "j", "e", "t">>
ICEBERG_ == <<"I", "C", "E", "B", "E", "R", "G", "_">>
SEP == <<"_">>
SUB_ == <<"s", "u", "b", "-">>
SUB_DEV == <<"s", "u", "b", "-", "D", "E", "V">>
T2_SAG == <<"T", "2", "_", "S", "A", "G">>
DTI_64DIR == <<"D", "T", "I", "_", "6", "4", "D", "I", "R">>
T1_SAG_MT_FL3D == <<"T", "1", "_", "S", "A", "G", "_", "M", "T", "_", "F", "L", "3", "D">>
T1_SAG_FL3D == <<"T", "1", "_", "S", "A", "G", "_", "F", "L", "3", "D">>
MP2RAGE_T1 == <<"m", "p", "2", "r", "a", "g", "e", "_", "s", "a", "g", "_", "p", "3",
                "_", "1", "m", "m", "_", "i", "s", "o", "_", "T", "1">>
MP2RAGE_UNI == <<"m", "p", "2", "r", "a", "g", "e", "_", "s", "a", "g", "_", "p", "3",
                 "_", "1", "m", "m", "_", "i", "s", "o", "_", "U", "N", "I">>
SFX_T2 == <<"_", "T", "2", ".", "n", "i", "i", ".", "g", "z">>
SFX_CHUNK == <<"_", "c", "h", "u", "n", "k", "-">>
SFX_DWI == <<"_", "D", "W", "I", ".", "n", "i", "i", ".", "g", "z">>
SFX_MTON == <<"_", "m", "t", "-", "o", "n", "_", "M", "T", "S", ".", "n", "i", "i", ".", "g", "z">>
SFX_MTOFF == <<"_", "m", "t", "-", "o", "f", "f", "_", "M", "T", "S", ".", "n", "i", "i", ".", "g", "z">>
SFX_T1MAP == <<"_", "T", "1", "m", "a", "p", ".", "n", "i", "i", ".", "g", "z">>
SFX_UNIT1 == <<"_", "U", "N", "I", "T", "1", ".", "n", "i", "i", ".", "g", "z">>
ANAT == <<"a", "n", "a", "t">>
DWI_DIR == <<"d", "w", "i">>
IndexError == <<"IndexError">>
OSError == <<"OSError">>

-----------------------------------------------------------------------------
(* extract_patient_id, lines 25-53 *)

\* the variant of extract_patient_id that picks the patient grammar whenever
\* the study marker is present
extract_patient_id_StudyMarkerFirst(dirname) ==
    IF ~Contains(dirname, ICEBERG_) THEN Raise(IndexError)
    ELSE LET tokens == Split(Split(dirname, ICEBERG_)[2], SEP)
         IN  IF Len(tokens) < 2 THEN Raise(IndexError)
             ELSE Return(SUB_ \o tokens[1] \o tokens[2])

extract_patient_id(dirname) ==
    IF Contains(dirname, DEV2)
    THEN \* Healthy control
         LET after_dev == RSplit(dirname, DEV2_)
             after_sujet == RSplit(dirname, Sujet)
         IN  IF Len(after_dev) < 2 THEN Raise(IndexError)
             ELSE LET patient_number == RSplit(after_dev[2], SEP)[1]
                  IN  IF Len(after_sujet) < 2 THEN Raise(IndexError)
                      ELSE Return(SUB_DEV \o patient_number \o Sujet \o after_sujet[2])
    ELSE \* Patient
         LET after_study == Split(dirname, ICEBERG_)
         IN  IF Len(after_study) < 2 THEN Raise(IndexError)
             ELSE LET tokens == Split(after_study[2], SEP)
                  IN  IF Len(tokens) < 2 THEN Raise(IndexError)
                      ELSE Return(SUB_ \o tokens[1] \o tokens[2])

-----------------------------------------------------------------------------
(* determine_scan_type_and_bids_path, lines 103-126 *)

\* the variant of the classifier that tests T1_SAG_FL3D before T1_SAG_MT_FL3D
\* and DTI_64DIR before T2_SAG
determine_scan_type_and_bids_path_Reordered(filename, patient_id, chunk) ==
    IF Contains(filename, DTI_64DIR)
        THEN <<patient_id \o SFX_CHUNK \o Str(chunk) \o SFX_DWI, DWI_DIR>>
    ELSE IF Contains(filename, T2_SAG)
        THEN <<patient_id \o SFX_T2, ANAT>>
    ELSE IF Contains(filename, T1_SAG_FL3D)
        THEN <<patient_id \o SFX_MTOFF, ANAT>>
    ELSE IF Contains(filename, T1_SAG_MT_FL3D)
        THEN <<patient_id \o SFX_MTON, ANAT>>
    ELSE IF Contains(filename, MP2RAGE_T1)
        THEN <<patient_id \o SFX_T1MAP, ANAT>>
    ELSE IF Contains(filename, MP2RAGE_UNI)
        THEN <<patient_id \o SFX_UNIT1, ANAT>>
    ELSE <<None, None>>

determine_scan_type_and_bids_path(filename, patient_id, chunk) ==
    IF Contains(filename, T2_SAG)
        THEN <<patient_id \o SFX_T2, ANAT>>
    ELSE IF Contains(filename, DTI_64DIR)
        THEN <<patient_id \o SFX_CHUNK \o Str(chunk) \o SFX_DWI, DWI_DIR>>
    ELSE IF Contains(filename, T1_SAG_MT_FL3D)
        THEN <<patient_id \o SFX_MTON, ANAT>>
    ELSE IF Contains(filename, T1_SAG_FL3D)
        THEN <<patient_id \o SFX_MTOFF, ANAT>>
    ELSE IF Contains(filename, MP2RAGE_T1)
        THEN <<patient_id \o SFX_T1MAP, ANAT>>
    ELSE IF Contains(filename, MP2RAGE_UNI)
        THEN <<patient_id \o SFX_UNIT1, ANAT>>
    ELSE <<None, None>>

-----------------------------------------------------------------------------
(* Input trees *)

DATE_A == <<"2", "0", "2", "0", "_", "0", "9", "_", "1", "6", "_">>
DATE_B == <<"2", "0", "2", "3", "_", "1", "0", "_", "0", "2", "_">>
DATE_C == <<"2", "0", "2", "1", "_", "0", "3", "_", "0", "2", "_">>
LM == <<"L", "M">>
N166 == <<"1", "6", "6">>
N170 == <<"1", "7", "0">>
N206 == <<"2", "0", "6">>
N214 == <<"2", "1", "4">>
V3_M == <<"_", "V", "3", "_", "M">>
V4_M == <<"_", "V", "4", "_", "M">>
VISIT_01 == <<"_", "0", "1", "_", "I", "C", "E", "B", "E", "R", "G", "_", "M", "E", "_">>
VISIT_02 == <<"_", "0", "2", "_", "I", "C", "E", "B", "E", "R", "G", "_", "M", "E", "_">>
P10 == <<"1", "0">>
P12 == <<"1", "2">>
PHANTOM_QA == <<"P", "H", "A", "N", "T", "O", "M", "_", "Q", "A">>
PARTICIPANTS_TSV == <<"p", "a", "r", "t", "i", "c", "i", "p", "a", "n", "t", "s", ".", "t", "s", "v">>
SCANS == <<"s", "c", "a", "n", "s">>
A_ == <<"a", "_">>
B_ == <<"b", "_">>
C_ == <<"c", "_">>
D_ == <<"d", "_">>
LOCALIZER == <<"l", "o", "c", "a", "l", "i", "z", "e", "r">>

\* 2020_09_16_ICEBERG_LM_166_V3_M (docstring, line 30)
DIR_LM166 == DATE_A \o ICEBERG_ \o LM \o SEP \o N166 \o V3_M
\* 2021_03_02_ICEBERG_LM_166_V4_M: a later visit of the same patient
DIR_LM166_V4 == DATE_C \o ICEBERG_ \o LM \o SEP \o N166 \o V4_M
\* 2023_10_02_DEV2_206_01_ICEBERG_ME_Sujet10 (docstring, line 29)
DIR_DEV206 == DATE_B \o DEV2_ \o N206 \o VISIT_01 \o Sujet \o P10
\* 2020_09_16_ICEBERG_DWI_170_V3_M: a patient whose initials are DWI
DIR_DWI170 == DATE_A \o ICEBERG_ \o DWI \o SEP \o N170 \o V3_M
\* 2020_09_16_PHANTOM_QA: a directory that carries neither marker
DIR_PHANTOM == DATE_A \o PHANTOM_QA

\* the dirpath of the patient directory itself
ROOT == <<>>
PATH_IN == "in"
PATH_OUT == "out"

\* names the input root may hold: raw acquisition directories and a plain file
EntryCatalog ==
    {DIR_LM166, DIR_LM166_V4, DIR_DWI170, DIR_PHANTOM, PARTICIPANTS_TSV}

\* the names among them of the trees the script is run on twice
EntryCatalogTwice == {DIR_LM166, DIR_LM166_V4, DIR_PHANTOM, PARTICIPANTS_TSV}

IsPlainFile(entry) == entry = PARTICIPANTS_TSV

\* .nii files a raw acquisition directory may hold: <<dirpath, filename>>
NII_T2_A == <<ROOT, A_ \o T2_SAG \o NII>>
NII_T2_B == <<SCANS, B_ \o T2_SAG \o NII>>
NII_DTI_C == <<ROOT, C_ \o DTI_64DIR \o NII>>
NII_DTI_D == <<ROOT, D_ \o DTI_64DIR \o NII>>
NII_LOCALIZER == <<ROOT, LOCALIZER \o NII>>

NiiCatalog == {NII_T2_A, NII_T2_B, NII_DTI_C, NII_DTI_D, NII_LOCALIZER}

NiiCatalogTwice == {NII_T2_A, NII_DTI_C, NII_DTI_D, NII_LOCALIZER}

\* the extensions of the files that lie next to a .nii file of the catalog
Companions(nii) ==
    CASE nii = NII_T2_A -> {JSON, BVAL}
      [] nii = NII_T2_B -> {JSON}
      [] nii = NII_DTI_C -> {JSON, BVAL, BVEC}
      [] nii = NII_DTI_D -> {BVAL}
      [] nii = NII_LOCALIZER -> {JSON}

\* a path is <<root, entry of the root, dirpath below the entry, filename>>;
\* a plain file of the root has neither dirpath nor filename
Path(root, entry, dirpath, filename) == <<root, entry, dirpath, filename>>

\* content of a file: its encoding and the source files whose bytes it holds
Raw(path) == [enc |-> "raw", data |-> <<path>>]

PathsOfEntry(entry, kit) ==
    IF IsPlainFile(entry) THEN {Path(PATH_IN, entry, ROOT, <<>>)}
    ELSE UNION {
           {Path(PATH_IN, entry, nii[1], nii[2])}
             \cup {Path(PATH_IN, entry, nii[1], Replace(nii[2], NII, ext)) :
                     ext \in Companions(nii)} : nii \in kit}

\* the input tree made of the entries, each directory holding the files of kit
InputTree(entries, kit) ==
    LET paths == UNION {PathsOfEntry(e, kit) : e \in entries}
    IN  [p \in paths |-> Raw(p)]

BoundedSubsets(S, n) == {T \in SUBSET S : Cardinality(T) \in 1..n}

InputTrees ==
    {InputTree(entries, kit) : entries \in BoundedSubsets(EntryCatalog, MaxDirs),
                               kit \in BoundedSubsets(NiiCatalog, MaxFiles)}

InputTreesTwice ==
    {InputTree(entries, kit) :
        entries \in BoundedSubsets(EntryCatalogTwice, MaxDirsTwice),
        kit \in BoundedSubsets(NiiCatalogTwice, MaxFilesTwice)}

-----------------------------------------------------------------------------
(* File system calls *)

\* os.listdir(root), line 63
listdir(f, root) == {p[2] : p \in {q \in DOMAIN f : q[1] = root}}

\* os.path.isdir(os.path.join(root, entry)), line 65
isdir(f, root, entry) ==
    \E p \in DOMAIN f : p[1] = root /\ p[2] = entry /\ p[4] # <<>>

\* the filenames os.walk yields for one dirpath, line 78
filenames(f, root, entry, dirpath) ==
    {p[4] : p \in {q \in DOMAIN f : q[1] = root /\ q[2] = entry /\ q[3] = dirpath}}

\* the <<dirpath, filename>> pairs of os.walk that pass the test of line 80
NiiFiles(f, root, entry) ==
    {<<p[3], p[4]>> : p \in {q \in DOMAIN f :
        q[1] = root /\ q[2] = entry /\ q[4] # <<>> /\ EndsWith(q[4], NII)}}

\* os.walk is top-down: the files of the directory itself come before those
\* of its subdirectory; within one dirpath the order is the file system's
WalkReady(file, left) == file[1] = ROOT \/ \A g \in left : g[1] # ROOT

\* f with path bound to content, created or overwritten
Write(f, path, content) ==
    [p \in DOMAIN f \cup {path} |-> IF p = path THEN content ELSE f[p]]

\* the variant of zip_and_move_nifti that moves: the source is removed
zip_and_move_nifti_Unlink(f, src_path, dest_path) ==
    LET g == Write(f, dest_path, [enc |-> "gz", data |-> f[src_path].data])
    IN  [p \in DOMAIN g \ {src_path} |-> g[p]]

\* the variant of zip_and_move_nifti that opens the destination in append mode
zip_and_move_nifti_Append(f, src_path, dest_path) ==
    IF dest_path \in DOMAIN f /\ f[dest_path].enc = "gz"
    THEN Write(f, dest_path,
               [enc |-> "gz", data |-> f[dest_path].data \o f[src_path].data])
    ELSE Write(f, dest_path, [enc |-> "gz", data |-> f[src_path].data])

\* zip_and_move_nifti, lines 129-142: gzip.open(dest_path, 'wb') truncates
zip_and_move_nifti(f, src_path, dest_path) ==
    Write(f, dest_path, [enc |-> "gz", data |-> f[src_path].data])

\* shutil.copy(src, dst), lines 90 and 97
copy(f, src_path, dest_path) == Write(f, dest_path, f[src_path])

\* what a call that raises OSError may leave behind: nothing (the source could
\* not be opened, the directory not created) or a truncated destination
Interrupted(f, src_path, dest_path) ==
    {f, Write(f, dest_path, [enc |-> "partial", data |-> f[src_path].data])}

-----------------------------------------------------------------------------
(* The body of the loop over filenames, lines 80-100 *)

\* the file operations lines 85-97 perform for one recognized .nii file
Transfers(f, entry, file, subject, chunk) ==
    LET dirpath == file[1]
        filename == file[2]
        siblings == filenames(f, PATH_IN, entry, dirpath)
        scan == determine_scan_type_and_bids_path(filename, subject, chunk)
        new_filename == scan[1]
        bids_subfolder == scan[2]
        json_filename == Replace(filename, NII, JSON)
        Aux(ext) ==
            LET dwi_file == Replace(filename, NII, ext)
            IN  IF Contains(new_filename, DWI) /\ dwi_file \in siblings
                THEN <<[op |-> "aux",
                        src |-> Path(PATH_IN, entry, dirpath, dwi_file),
                        dst |-> Path(PATH_OUT, subject, bids_subfolder,
                                     Replace(new_filename, NII_GZ, ext))]>>
                ELSE <<>>
    IN  <<[op |-> "zip",
           src |-> Path(PATH_IN, entry, dirpath, filename),
           dst |-> Path(PATH_OUT, subject, bids_subfolder, new_filename)]>>
        \o (IF json_filename \in siblings
            THEN <<[op |-> "json",
                    src |-> Path(PATH_IN, entry, dirpath, json_filename),
                    dst |-> Path(PATH_OUT, subject, bids_subfolder,
                                 Replace(new_filename, NII_GZ, JSON))]>>
            ELSE <<>>)
        \o Aux(BVAL) \o Aux(BVEC)

Perform(f, t) ==
    IF t.op = "zip" THEN zip_and_move_nifti(f, t.src, t.dst)
    ELSE copy(f, t.src, t.dst)

RECURSIVE PerformAll(_, _)
PerformAll(f, ts) ==
    IF ts = <<>> THEN f ELSE PerformAll(Perform(f, Head(ts)), Tail(ts))

\* line 98 is inside the test of line 93
NextChunk(new_filename, chunk) ==
    IF Contains(new_filename, DWI) THEN chunk + 1 ELSE chunk

-----------------------------------------------------------------------------
(* convert_mri_to_bids, lines 56-100 *)

NoFailure == <<"NoFailure">>
NoPath == <<>>
EmptyTree == [p \in {} |-> Raw(p)]

\* the files below the output root
OutTree(f) == [p \in {q \in DOMAIN f : q[1] = PATH_OUT} |-> f[p]]

\* the entries and .nii files an invocation was served, in order
IsServed(t) == t.op \in {"entry", "dir", "zip", "skip"}
Order(l) == LET v == SelectSeq(l, IsServed) IN [i \in 1..Len(v) |-> v[i].src]

\* the order in which os.listdir and os.walk serve names is the file system's:
\* any order, or the order of the previous invocation once more
Served(path) ==
    replay => LET n == Len(Order(log)) + 1
              IN  n <= Len(order1) /\ order1[n] = path

Event(op, src, dst) == [op |-> op, src |-> src, dst |-> dst]

InitRun ==
    /\ pc = "start"
    /\ run = 1
    /\ listing = {}
    /\ patient_dir = None
    /\ bids_patient_id = None
    /\ dwi_chunk_counter = None
    /\ walk = {}
    /\ log = <<>>
    /\ failure = NoFailure
    /\ out1 = EmptyTree
    /\ order1 = <<>>
    /\ replay = FALSE
    /\ arg = None
    /\ ret = None

Init == fs \in InputTrees /\ InitRun

InitTwice == fs \in InputTreesTwice /\ InitRun

\* line 63: os.listdir is evaluated once, before the loop
ListDir ==
    /\ pc = "start"
    /\ listing' = listdir(fs, PATH_IN)
    /\ pc' = "loop"
    /\ UNCHANGED <<fs, run, patient_dir, bids_patient_id, dwi_chunk_counter,
                   walk, log, failure, out1, order1, replay, arg, ret>>

\* lines 63-65: an entry of the input root that is not a directory
SkipEntry(entry) ==
    /\ pc = "loop"
    /\ entry \in listing
    /\ Served(Path(PATH_IN, entry, ROOT, <<>>))
    /\ ~isdir(fs, PATH_IN, entry)
    /\ listing' = listing \ {entry}
    /\ patient_dir' = entry
    /\ log' = Append(log, Event("entry", Path(PATH_IN, entry, ROOT, <<>>), NoPath))
    /\ UNCHANGED <<fs, pc, run, bids_patient_id, dwi_chunk_counter, walk,
                   failure, out1, order1, replay, arg, ret>>

\* lines 63-78: a directory whose name extract_patient_id converts
EnterDir(entry) ==
    /\ pc = "loop"
    /\ entry \in listing
    /\ Served(Path(PATH_IN, entry, ROOT, <<>>))
    /\ isdir(fs, PATH_IN, entry)
    /\ ~extract_patient_id(entry).raised
    /\ listing' = listing \ {entry}
    /\ patient_dir' = entry
    /\ bids_patient_id' = extract_patient_id(entry).value
    /\ log' = Append(log, Event("dir", Path(PATH_IN, entry, ROOT, <<>>), NoPath))
    /\ IF ~Truthy(bids_patient_id')
       THEN \* lines 69-71
            UNCHANGED <<pc, dwi_chunk_counter, walk>>
       ELSE /\ dwi_chunk_counter' = 1
            /\ walk' = NiiFiles(fs, PATH_IN, entry)
            /\ pc' = "walk"
    /\ UNCHANGED <<fs, run, failure, out1, order1, replay, arg, ret>>

\* lines 63-66: extract_patient_id raises, nothing catches it
EnterDirRaises(entry) ==
    /\ pc = "loop"
    /\ entry \in listing
    /\ Served(Path(PATH_IN, entry, ROOT, <<>>))
    /\ isdir(fs, PATH_IN, entry)
    /\ extract_patient_id(entry).raised
    /\ listing' = listing \ {entry}
    /\ patient_dir' = entry
    /\ failure' = extract_patient_id(entry).value
    /\ pc' = "aborted"
    /\ UNCHANGED <<fs, run, bids_patient_id, dwi_chunk_counter, walk, log,
                   out1, order1, replay, arg, ret>>

\* lines 80-83 and 99-100: a .nii file no rule recognizes
IgnoreFile(file) ==
    /\ pc = "walk"
    /\ file \in walk
    /\ WalkReady(file, walk)
    /\ Served(Path(PATH_IN, patient_dir, file[1], file[2]))
    /\ ~Truthy(determine_scan_type_and_bids_path(
                   file[2], bids_patient_id, dwi_chunk_counter)[1])
    /\ walk' = walk \ {file}
    /\ log' = Append(log, Event("skip",
                                Path(PATH_IN, patient_dir, file[1], file[2]),
                                NoPath))
    /\ UNCHANGED <<fs, pc, run, listing, patient_dir, bids_patient_id,
                   dwi_chunk_counter, failure, out1, order1, replay, arg, ret>>

\* lines 80-98: a recognized .nii file, every file operation succeeding
TransferFile(file) ==
    /\ pc = "walk"
    /\ file \in walk
    /\ WalkReady(file, walk)
    /\ Served(Path(PATH_IN, patient_dir, file[1], file[2]))
    /\ LET new_filename == determine_scan_type_and_bids_path(
                               file[2], bids_patient_id, dwi_chunk_counter)[1]
           ts == Transfers(fs, patient_dir, file, bids_patient_id, dwi_chunk_counter)
       IN  /\ Truthy(new_filename)
           /\ fs' = PerformAll(fs, ts)
           /\ log' = log \o ts
           /\ dwi_chunk_counter' = NextChunk(new_filename, dwi_chunk_counter)
    /\ walk' = walk \ {file}
    /\ UNCHANGED <<pc, run, listing, patient_dir, bids_patient_id, failure,
                   out1, order1, replay, arg, ret>>

\* lines 80-98: one of the file operations raises OSError after k of them
\* succeeded; nothing catches it
TransferFails(file) ==
    /\ pc = "walk"
    /\ file \in walk
    /\ WalkReady(file, walk)
    /\ Served(Path(PATH_IN, patient_dir, file[1], file[2]))
    /\ LET new_filename == determine_scan_type_and_bids_path(
                               file[2], bids_patient_id, dwi_chunk_counter)[1]
           ts == Transfers(fs, patient_dir, file, bids_patient_id, dwi_chunk_counter)
       IN  /\ Truthy(new_filename)
           /\ \E k \in 0..(Len(ts) - 1) :
                /\ fs' \in Interrupted(PerformAll(fs, SubSeq(ts, 1, k)),
                                       ts[k + 1].src, ts[k + 1].dst)
                /\ log' = log \o SubSeq(ts, 1, k)
    /\ failure' = OSError
    /\ pc' = "aborted"
    /\ UNCHANGED <<run, listing, patient_dir, bids_patient_id, dwi_chunk_counter,
                   walk, out1, order1, replay, arg, ret>>

\* line 78: os.walk is exhausted
EndWalk ==
    /\ pc = "walk"
    /\ walk = {}
    /\ pc' = "loop"
    /\ UNCHANGED <<fs, run, listing, patient_dir, bids_patient_id,
                   dwi_chunk_counter, walk, log, failure, out1, order1, replay,
                   arg, ret>>

\* line 63: os.listdir is exhausted, convert_mri_to_bids returns
Finish ==
    /\ pc = "loop"
    /\ listing = {}
    /\ pc' = "done"
    /\ UNCHANGED <<fs, run, listing, patient_dir, bids_patient_id,
                   dwi_chunk_counter, walk, log, failure, out1, order1, replay,
                   arg, ret>>

\* lines 145-165: the script is invoked again with the same two roots
Rerun ==
    /\ pc = "done"
    /\ run = 1
    /\ run' = 2
    /\ out1' = OutTree(fs)
    /\ replay' \in BOOLEAN
    /\ order1' = IF replay' THEN Order(log) ELSE <<>>
    /\ log' = <<>>
    /\ pc' = "start"
    /\ patient_dir' = None
    /\ bids_patient_id' = None
    /\ dwi_chunk_counter' = None
    /\ UNCHANGED <<fs, listing, walk, failure, arg, ret>>

Next ==
    \/ ListDir
    \/ \E entry \in EntryCatalog : SkipEntry(entry)
    \/ \E entry \in EntryCatalog : EnterDir(entry)
    \/ \E entry \in EntryCatalog : EnterDirRaises(entry)
    \/ \E file \in NiiCatalog : IgnoreFile(file)
    \/ \E file \in NiiCatalog : TransferFile(file)
    \/ \E file \in NiiCatalog : TransferFails(file)
    \/ EndWalk
    \/ Finish

Spec == Init /\ [][Next]_vars

NextTwice == Next \/ Rerun

SpecTwice == InitTwice /\ [][NextTwice]_vars

-----------------------------------------------------------------------------
(* Direct calls of extract_patient_id *)

\* directory names of the patient grammar: <date>_ICEBERG_<initials>_<id><suffix>
PatientGrammar ==
    [date : {DATE_A, DATE_C}, initials : {LM, DWI, <<"B">>},
     number : {N166, N170, N206}, suffix : {V3_M, V4_M}]

RenderPatient(g) == g.date \o ICEBERG_ \o g.initials \o SEP \o g.number \o g.suffix

\* directory names of the healthy-control grammar:
\* <date>_DEV2_<code>_<visit>_ICEBERG_ME_Sujet<participant>
HealthyGrammar ==
    [date : {DATE_A, DATE_B}, code : {N206, N214, N166},
     visit : {VISIT_01, VISIT_02}, participant : {P10, P12, N170}]

RenderHealthy(g) == g.date \o DEV2_ \o g.code \o g.visit \o Sujet \o g.participant

DirNames ==
    {RenderPatient(g) : g \in PatientGrammar}
        \cup {RenderHealthy(g) : g \in HealthyGrammar}
        \cup {DIR_PHANTOM, DATE_A \o ICEBERG_ \o LM, DATE_B \o DEV2_ \o N206}

Idle ==
    /\ fs = EmptyTree
    /\ run = 1
    /\ listing = {}
    /\ patient_dir = None
    /\ bids_patient_id = None
    /\ dwi_chunk_counter = None
    /\ walk = {}
    /\ log = <<>>
    /\ failure = NoFailure
    /\ out1 = EmptyTree
    /\ order1 = <<>>
    /\ replay = FALSE

InitParse ==
    /\ Idle
    /\ pc = "call"
    /\ arg \in [dirname : DirNames]
    /\ ret = Return(None)

CallExtractPatientId ==
    /\ pc = "call"
    /\ ret' = extract_patient_id(arg.dirname)
    /\ pc' = "returned"
    /\ UNCHANGED <<fs, run, listing, patient_dir, bids_patient_id,
                   dwi_chunk_counter, walk, log, failure, out1, order1, replay, arg>>

NextParse == CallExtractPatientId

SpecParse == InitParse /\ [][NextParse]_vars

-----------------------------------------------------------------------------
(* Direct calls of determine_scan_type_and_bids_path *)

\* the substrings the rules of lines 114-125 test, in the order of the rules
Markers ==
    <<T2_SAG, DTI_64DIR, T1_SAG_MT_FL3D, T1_SAG_FL3D, MP2RAGE_T1, MP2RAGE_UNI>>

\* a filename that holds the markers of S, in rule order or in reverse
RECURSIVE MarkerName(_, _)
MarkerName(S, ascending) ==
    IF S = {} THEN NII
    ELSE LET i == IF ascending THEN Min(S) ELSE Max(S)
         IN  SEP \o Markers[i] \o MarkerName(S \ {i}, ascending)

Filenames ==
    {<<"s", "3">> \o MarkerName(S, up) : S \in SUBSET (1..Len(Markers)), up \in BOOLEAN}

InitClassify ==
    /\ Idle
    /\ pc = "call"
    /\ arg \in [filename : Filenames,
                patient_id : {SUB_ \o LM \o N166, SUB_ \o DWI \o N170},
                dwi_chunk_counter : 1..MaxChunk]
    /\ ret = <<None, None>>

CallDetermineScanType ==
    /\ pc = "call"
    /\ ret' = determine_scan_type_and_bids_path(
                  arg.filename, arg.patient_id, arg.dwi_chunk_counter)
    /\ pc' = "returned"
    /\ UNCHANGED <<fs, run, listing, patient_dir, bids_patient_id,
                   dwi_chunk_counter, walk, log, failure, out1, order1, replay, arg>>

NextClassify == CallDetermineScanType

SpecClassify == InitClassify /\ [][NextClassify]_vars

-----------------------------------------------------------------------------
(* Properties *)

\* name without its extension ext
Base(name, ext) == SubSeq(name, 1, Len(name) - Len(ext))

\* a filename the rule list classifies as diffusion: it holds DTI_64DIR and
\* the one earlier rule, T2_SAG, does not match
IsDiffusion(filename) == Contains(filename, DTI_64DIR) /\ ~Contains(filename, T2_SAG)

\* the primary files transferred so far by the current invocation
Zips == {i \in 1..Len(log) : log[i].op = "zip"}

\* how many diffusion files of the directory of log[i] were transferred up to log[i]
DiffusionRank(i) ==
    Cardinality({j \in Zips : j <= i /\ log[j].src[2] = log[i].src[2]
                                /\ IsDiffusion(log[j].src[4])})

\* the invocation has not been ended by an exception
Running == pc \in {"start", "loop", "walk", "done"}

\* C1: in every subject directory, whatever the subject id and the order of the
\* walk, the k-th file classified as diffusion is written as
\* <subjectId>_chunk-k_DWI.nii.gz, k counting from 1; files of other modalities
\* and unrecognized files do not advance the counter.
C1_ChunkNumbering ==
    \A i \in Zips :
        IsDiffusion(log[i].src[4]) =>
            log[i].dst[4] = log[i].dst[2] \o SFX_CHUNK \o Str(DiffusionRank(i)) \o SFX_DWI

\* C2: a read, write or copy that fails on one file is confined to that file:
\* the invocation goes on with the next file and directory and completes.
C2_FailureConfined == failure = OSError => Running

\* a directory name that matches neither naming grammar
Unrecognized(dirname) == ~Contains(dirname, DEV2) /\ ~Contains(dirname, ICEBERG_)

\* C3: a directory of the input root whose name carries neither the
\* healthy-control marker nor ICEBERG_ is skipped, nothing is written for it,
\* and the invocation goes on with the remaining directories.
C3_UnrecognizedDirSkipped ==
    (isdir(fs, PATH_IN, patient_dir) /\ Unrecognized(patient_dir)) =>
        /\ Running
        /\ \A i \in 1..Len(log) : log[i].op = "dir" => log[i].src[2] # patient_dir

\* the modality token of rule i, and its subfolder
RuleToken(i, chunk) ==
    CASE i = 1 -> <<"T", "2">>
      [] i = 2 -> <<"c", "h", "u", "n", "k", "-">> \o Str(chunk) \o <<"_", "D", "W", "I">>
      [] i = 3 -> <<"m", "t", "-", "o", "n", "_", "M", "T", "S">>
      [] i = 4 -> <<"m", "t", "-", "o", "f", "f", "_", "M", "T", "S">>
      [] i = 5 -> <<"T", "1", "m", "a", "p">>
      [] i = 6 -> <<"U", "N", "I", "T", "1">>

RuleSubfolder(i) == IF i = 2 THEN <<"d", "w", "i">> ELSE <<"a", "n", "a", "t">>

\* C4: determine_scan_type_and_bids_path is total and first-match-wins: the
\* result is that of the first rule, in the order T2_SAG, DTI_64DIR,
\* T1_SAG_MT_FL3D, T1_SAG_FL3D, mp2rage_sag_p3_1mm_iso_T1,
\* mp2rage_sag_p3_1mm_iso_UNI, whose marker the filename holds, and it is
\* (None, None) exactly when the filename holds no marker.
C4_FirstMatchWins ==
    pc = "returned" =>
        LET present == {i \in 1..Len(Markers) : Contains(arg.filename, Markers[i])}
        IN  IF present = {} THEN ret = <<None, None>>
            ELSE /\ ret[1] = arg.patient_id \o SEP
                               \o RuleToken(Min(present), arg.dwi_chunk_counter)
                               \o NII_GZ
                 /\ ret[2] = RuleSubfolder(Min(present))
                 /\ ret[1] # None

\* a filename holding both T1_SAG_FL3D and T1_SAG_MT_FL3D, and both mp2rage
\* markers, was classified by the earliest of their rules
C4_Witness ==
    /\ pc = "returned"
    /\ {i \in 1..Len(Markers) : Contains(arg.filename, Markers[i])} = {3, 4, 5, 6}
    /\ ret = <<arg.patient_id \o SFX_MTON, ANAT>>

\* C5: extract_patient_id picks the grammar by the healthy-control marker: a
\* name of the healthy-control grammar gives sub-DEV<code>Sujet<participant>
\* (2023_10_02_DEV2_206_01_ICEBERG_ME_Sujet10 -> sub-DEV206Sujet10), and any
\* other name of the patient grammar gives sub-<initials><id>, from the two
\* tokens after ICEBERG_ (2020_09_16_ICEBERG_LM_166_V3_M -> sub-LM166).
C5_ParseByGrammar ==
    pc = "returned" =>
        /\ \A g \in HealthyGrammar :
              arg.dirname = RenderHealthy(g) =>
                  ret = Return(<<"s", "u", "b", "-", "D", "E", "V">> \o g.code
                                   \o <<"S", "u", "j", "e", "t">> \o g.participant)
        /\ \A g \in PatientGrammar :
              arg.dirname = RenderPatient(g) =>
                  ret = Return(<<"s", "u", "b", "-">> \o g.initials \o g.number)
        /\ arg.dirname = DIR_LM166 =>
              ret = Return(<<"s", "u", "b", "-", "L", "M", "1", "6", "6">>)

\* the docstring's healthy control, which carries both markers, was converted
C5_Witness ==
    /\ pc = "returned"
    /\ arg.dirname = DIR_DEV206
    /\ ret = Return(<<"s", "u", "b", "-", "D", "E", "V", "2", "0", "6",
                      "S", "u", "j", "e", "t", "1", "0">>)

\* C6: after an invocation, every recognized .nii file that has a .json sidecar
\* at the source has, at the destination, a sidecar with its renamed base and
\* the content of that source sidecar.
C6_SidecarCopied ==
    pc = "done" =>
        \A i \in Zips :
            LET src == log[i].src
                dst == log[i].dst
                sidecar == Path(src[1], src[2], src[3], Base(src[4], NII) \o JSON)
                renamed == Path(dst[1], dst[2], dst[3], Base(dst[4], NII_GZ) \o JSON)
            IN  sidecar \in DOMAIN fs =>
                    renamed \in DOMAIN fs /\ fs[renamed] = fs[sidecar]

\* C7: a .bval or .bvec file is copied for a primary file if and only if the
\* primary file was classified as diffusion and the file lies next to it;
\* no file of another modality has one copied, whatever the subject id.
C7_AuxOnlyForDiffusion ==
    Running =>
        \A i \in Zips : \A ext \in {BVAL, BVEC} :
            LET src == log[i].src
                aux == Path(src[1], src[2], src[3], Base(src[4], NII) \o ext)
            IN  (\E j \in 1..Len(log) : log[j].op = "aux" /\ log[j].src = aux)
                    <=> (IsDiffusion(src[4]) /\ aux \in DOMAIN fs)

C10_NoDestinationCollision ==
    \A i \in Zips : \A j \in Zips :
        log[i].src # log[j].src => log[i].dst # log[j].dst

=============================================================================
